---- MODULE Spec2Model ----
(***************************************************************************)
(* mastodon-cross-post: cross-posting of archived tweets to Mastodon.      *)
(*                                                                         *)
(* The program text modelled here is the current version of main.go, which *)
(* is stored in src/main_test.go, lines 90-581 (findMatchingStatus,        *)
(* syncMedia, syncTweet, syncTwitter, tootToTweet, tweetToTootV1,          *)
(* tweetToTootV2).  Strings are TLA+ strings, handled character by         *)
(* character through Len, SubSeq and \o.  A definition marked "variant"    *)
(* is the definition that follows it with one defect put in; the           *)
(* properties at the end of the module are expected to tell the two apart. *)
(***************************************************************************)
EXTENDS Integers, Sequences, FiniteSets, TLC

(***************************************************************************)
(* String helpers: the Go standard library calls the program makes.       *)
(***************************************************************************)

\* A Go pointer or slice that may be nil is <<>> when nil and <<v>> when it
\* holds v, so that a nil slice and an empty slice <<<<>>>> differ.
Nil == <<>>

Ref(v) == <<v>>

Deref(p) == p[1]

Min(a, b) == IF a < b THEN a ELSE b

\* s[i-1:] of Go, 1-based
StrFrom(s, i) == SubSeq(s, i, Len(s))

\* strings.HasPrefix(s[i-1:], p)
HasPrefixAt(s, i, p) ==
    /\ i + Len(p) - 1 <= Len(s)
    /\ SubSeq(s, i, i + Len(p) - 1) = p

\* strings.HasSuffix(s, suffix)
HasSuffix(s, suffix) ==
    /\ Len(s) >= Len(suffix)
    /\ SubSeq(s, Len(s) - Len(suffix) + 1, Len(s)) = suffix

\* strings.Index(s[i-1:], sub) as a position of s, 0 when sub does not occur
IndexFrom(s, sub, i) ==
    LET at == {k \in i..Len(s) : HasPrefixAt(s, k, sub)}
    IN  IF at = {} THEN 0 ELSE CHOOSE k \in at : \A m \in at : k <= m

RECURSIVE ReplaceFrom(_, _, _, _)
ReplaceFrom(s, old, new, i) ==
    LET k == IndexFrom(s, old, i)
    IN  IF k = 0 THEN StrFrom(s, i)
        ELSE SubSeq(s, i, k - 1) \o new \o ReplaceFrom(s, old, new, k + Len(old))

RECURSIVE InsertBetween(_, _, _)
InsertBetween(s, new, i) ==
    IF i > Len(s) THEN new
    ELSE new \o SubSeq(s, i, i) \o InsertBetween(s, new, i + 1)

\* strings.Replace(s, old, new, -1): every non-overlapping occurrence of old,
\* left to right; an empty old matches before every character and at the end.
Replace(s, old, new) ==
    IF old = "" THEN InsertBetween(s, new, 1)
    ELSE ReplaceFrom(s, old, new, 1)

Letters ==
    {"a", "b", "c", "d", "e", "f", "g", "h", "i", "j", "k", "l", "m",
     "n", "o", "p", "q", "r", "s", "t", "u", "v", "w", "x", "y", "z",
     "A", "B", "C", "D", "E", "F", "G", "H", "I", "J", "K", "L", "M",
     "N", "O", "P", "Q", "R", "S", "T", "U", "V", "W", "X", "Y", "Z"}

Digits == {"0", "1", "2", "3", "4", "5", "6", "7", "8", "9"}

\* \w of Go's regexp syntax
WordChars == Letters \cup Digits \cup {"_"}

AllWordChars(s) == \A k \in 1..Len(s) : SubSeq(s, k, k) \in WordChars

TcoPrefix == " https://t.co/"

\* A match of endTcoShortLinkRE that starts at position i of s.
TcoMatchAt(s, i) ==
    /\ HasPrefixAt(s, i, TcoPrefix)
    /\ Len(s) - (i + Len(TcoPrefix)) + 1 >= 5
    /\ AllWordChars(StrFrom(s, i + Len(TcoPrefix)))

\* endTcoShortLinkRE.ReplaceAllString(content, ""): the pattern is anchored
\* at the end of the text, so only the leftmost match is replaced.
endTcoShortLinkRE(content) ==
    LET starts == {i \in 1..Len(content) : TcoMatchAt(content, i)}
    IN  IF starts = {} THEN content
        ELSE SubSeq(content, 1, (CHOOSE i \in starts : \A k \in starts : i <= k) - 1)

(***************************************************************************)
(* levenshtein.ComputeDistance: unit-cost insert, delete, substitute over  *)
(* whole strings, computed row by row.                                     *)
(***************************************************************************)

RECURSIVE LevCells(_, _, _, _)
\* cur holds the cells 0..Len(cur)-1 of the row being computed
LevCells(prev, cur, c, t) ==
    IF Len(cur) > Len(t) THEN cur
    ELSE LET j   == Len(cur)
             sub == prev[j] + (IF SubSeq(t, j, j) = c THEN 0 ELSE 1)
             del == prev[j + 1] + 1
             ins == cur[j] + 1
         IN  LevCells(prev, Append(cur, Min(sub, Min(del, ins))), c, t)

RECURSIVE LevRows(_, _, _)
\* prev is a row of the matrix; its first cell prev[1] is the row's number
LevRows(prev, s, t) ==
    IF prev[1] >= Len(s) THEN prev
    ELSE LevRows(LevCells(prev, <<prev[1] + 1>>, SubSeq(s, prev[1] + 1, prev[1] + 1), t), s, t)

ComputeDistance(s, t) ==
    IF s = t THEN 0
    ELSE LevRows([j \in 1..(Len(t) + 1) |-> j - 1], s, t)[Len(t) + 1]

(***************************************************************************)
(* tootToTweet and the library calls it makes                              *)
(***************************************************************************)

\* The smallest element of a set of positions, 0 for the empty set
First(positions) ==
    IF positions = {} THEN 0 ELSE CHOOSE k \in positions : \A m \in positions : k <= m

\* Position just after the tag whose body starts at i: after the first ">"
\* that is not inside a quoted attribute value (<div title="1>2">).
RECURSIVE TagEnd(_, _)
TagEnd(s, i) ==
    LET gt == IndexFrom(s, ">", i)
        q  == First({k \in (i + 1)..Len(s) :
                       /\ SubSeq(s, k, k) \in {"\"", "'"}
                       /\ SubSeq(s, k - 1, k - 1) = "="})
    IN  IF q # 0 /\ (gt = 0 \/ q < gt)
        THEN LET close == IndexFrom(s, SubSeq(s, q, q), q + 1)
             IN  IF close = 0 THEN Len(s) + 1 ELSE TagEnd(s, close + 1)
        ELSE IF gt = 0 THEN Len(s) + 1 ELSE gt + 1

CommentEnd(s, i) ==
    LET k == IndexFrom(s, "-->", i)
    IN  IF k = 0 THEN Len(s) + 1 ELSE k + 3

\* "<" at position i opens a tag when a tag name (a letter) follows it,
\* directly or after "/"; "I <3 ponies" keeps its "<".
IsTagStart(s, i) ==
    /\ SubSeq(s, i, i) = "<"
    /\ \/ i + 1 <= Len(s) /\ SubSeq(s, i + 1, i + 1) \in Letters
       \/ i + 2 <= Len(s) /\ SubSeq(s, i + 1, i + 1) = "/"
                          /\ SubSeq(s, i + 2, i + 2) \in Letters

RECURSIVE StripFrom(_, _)
StripFrom(s, i) ==
    LET k == First({m \in i..Len(s) : IsTagStart(s, m) \/ HasPrefixAt(s, m, "<!--")})
    IN  IF k = 0 THEN StrFrom(s, i)
        ELSE SubSeq(s, i, k - 1) \o
             StripFrom(s, IF HasPrefixAt(s, k, "<!--")
                          THEN CommentEnd(s, k + 4)
                          ELSE TagEnd(s, k + 1))

\* strip.StripTags(content): the text content, markup tags removed
StripTags(content) == StripFrom(content, 1)

\* The character entities html.UnescapeString decodes, as far as the
\* destination produces them.
HTMLEntities ==
    << <<"&amp;", "&">>, <<"&lt;", "<">>, <<"&gt;", ">">>,
       <<"&quot;", "\"">>, <<"&apos;", "'">>,
       <<"&#39;", "'">>, <<"&#34;", "\"">>, <<"&#38;", "&">>,
       <<"&#60;", "<">>, <<"&#62;", ">">> >>

EntityAt(s, i) == {k \in 1..Len(HTMLEntities) : HasPrefixAt(s, i, HTMLEntities[k][1])}

RECURSIVE UnescapeFrom(_, _)
UnescapeFrom(s, i) ==
    LET k == First({m \in i..Len(s) : EntityAt(s, m) # {}})
    IN  IF k = 0 THEN StrFrom(s, i)
        ELSE LET e == HTMLEntities[CHOOSE n \in EntityAt(s, k) : TRUE]
             IN  SubSeq(s, i, k - 1) \o e[2] \o UnescapeFrom(s, k + Len(e[1]))

\* html.UnescapeString(content): one left-to-right pass, no re-scan
UnescapeString(content) == UnescapeFrom(content, 1)

tootToTweet(status) ==
    LET content1 == status.Content
        content2 == Replace(content1, "</p><p>", "\n\n")
        content3 == StripTags(content2)
        content4 == UnescapeString(content3)
    IN  content4

(***************************************************************************)
(* The transformers                                                        *)
(***************************************************************************)

tweetToTootV1(tweet) == tweet.Text

\* the loop over tweet.Entities.URLs, from entity k on
RECURSIVE ExpandURLs(_, _, _)
ExpandURLs(content, urls, k) ==
    IF k > Len(urls) THEN content
    ELSE ExpandURLs(Replace(content, urls[k].URL, urls[k].ExpandedURL), urls, k + 1)

tweetToTootV2(tweet) ==
    LET content1 == tweet.Text
        content2 == IF tweet.Entities # Nil /\ Deref(tweet.Entities).URLs # Nil
                    THEN ExpandURLs(content1, Deref(Deref(tweet.Entities).URLs), 1)
                    ELSE content1
        content3 == IF tweet.Entities # Nil /\ Deref(tweet.Entities).Medias # Nil
                    THEN endTcoShortLinkRE(content2)
                    ELSE content2
        content4 == IF tweet.Retweet # Nil
                    THEN content3 \o "\n\n" \o "https://twitter.com/"
                         \o Deref(tweet.Retweet).User \o "/status/"
                         \o ToString(Deref(tweet.Retweet).StatusID)
                    ELSE content3
    IN  content4

(***************************************************************************)
(* The implementations                                                     *)
(***************************************************************************)

levenshteinDistanceTolerance == 10

\* variant: the old version is tried before the new one
tweetToTootImplementationsOldFirst == <<"tweetToTootV1", "tweetToTootV2">>

\* variant: the old version is no longer tried
tweetToTootImplementationsNewOnly == <<"tweetToTootV2">>

tweetToTootImplementations == <<"tweetToTootV2", "tweetToTootV1">>

tweetToToot(impl, tweet) ==
    IF impl = "tweetToTootV2" THEN tweetToTootV2(tweet) ELSE tweetToTootV1(tweet)

(***************************************************************************)
(* The destination: what the Mastodon server makes of a posted text        *)
(***************************************************************************)

HTMLEscapes ==
    << <<"&", "&amp;">>, <<"<", "&lt;">>, <<">", "&gt;">>,
       <<"\"", "&quot;">>, <<"'", "&apos;">> >>

EscapeAt(s, i) == {k \in 1..Len(HTMLEscapes) : SubSeq(s, i, i) = HTMLEscapes[k][1]}

RECURSIVE EscapeFrom(_, _)
EscapeFrom(s, i) ==
    LET k == First({m \in i..Len(s) : EscapeAt(s, m) # {}})
    IN  IF k = 0 THEN StrFrom(s, i)
        ELSE SubSeq(s, i, k - 1) \o HTMLEscapes[CHOOSE n \in EscapeAt(s, k) : TRUE][2]
             \o EscapeFrom(s, k + 1)

EscapeString(s) == EscapeFrom(s, 1)

Whitespace == {" ", "\n", "\t"}

LinkMarkup(url) ==
    "<a href=\"" \o EscapeString(url)
    \o "\" rel=\"nofollow noopener noreferrer\" target=\"_blank\">"
    \o "<span class=\"invisible\">https://</span><span class=\"\">"
    \o EscapeString(StrFrom(url, Len("https://") + 1))
    \o "</span><span class=\"invisible\"></span></a>"

RECURSIVE RenderFrom(_, _)
RenderFrom(s, i) ==
    LET k == IndexFrom(s, "https://", i)
    IN  IF k = 0 THEN EscapeString(StrFrom(s, i))
        ELSE LET sp == First({m \in k..Len(s) : SubSeq(s, m, m) \in Whitespace})
                 e  == IF sp = 0 THEN Len(s) + 1 ELSE sp
             IN  EscapeString(SubSeq(s, i, k - 1)) \o LinkMarkup(SubSeq(s, k, e - 1))
                 \o RenderFrom(s, e)

\* The content the destination serves for a status posted with this text:
\* characters escaped, links marked up, paragraphs wrapped.
Render(text) == "<p>" \o Replace(RenderFrom(text, 1), "\n\n", "</p><p>") \o "</p>"

(***************************************************************************)
(* Inputs: the data file, the configuration, the account's statuses        *)
(***************************************************************************)

\* bounds of the model
MaxArchive == 3

MaxRuns == 3

\* number of statuses one GetAccountStatuses call returns (the most recent)
PageLimit == 2

NoEntities == Nil

Photo(id) == [ID |-> id, Type |-> "photo", URL |-> "https://pbs.example/" \o ToString(id) \o ".jpg"]

Video(id) == [ID |-> id, Type |-> "video", URL |-> "https://pbs.example/" \o ToString(id) \o ".mp4"]

Tweet60 ==
    [ID |-> 60, Text |-> "good morning all",
     Entities |-> NoEntities, Reply |-> Nil, Retweet |-> Nil]

\* within the tolerance of Tweet60
Tweet50 ==
    [ID |-> 50, Text |-> "good morning, y'all!",
     Entities |-> NoEntities, Reply |-> Nil, Retweet |-> Nil]

\* a short link with a URL entity, two medias and the automatic media link
Tweet40 ==
    [ID |-> 40, Text |-> "new post https://t.co/xyz12 https://t.co/abcde",
     Entities |-> Ref([URLs   |-> Ref(<<[URL |-> "https://t.co/xyz12",
                                         ExpandedURL |-> "https://brandur.org/x"]>>),
                       Medias |-> Ref(<<Photo(1), Video(2)>>)]),
     Reply |-> Nil, Retweet |-> Nil]

\* a retweet
Tweet30 ==
    [ID |-> 30, Text |-> "RT @pg: queues & <jobs>\n\nso true",
     Entities |-> Ref([URLs |-> Nil, Medias |-> Nil]),
     Reply |-> Nil, Retweet |-> Ref([StatusID |-> 7, User |-> "pg"])]

\* a reply, with a photo
Tweet20 ==
    [ID |-> 20, Text |-> "@bob \"thanks\" a lot, see you",
     Entities |-> Ref([URLs |-> Nil, Medias |-> Ref(<<Photo(3)>>)]),
     Reply |-> Ref([StatusID |-> 5, User |-> "bob"]), Retweet |-> Nil]

\* a text that ends with "@", with a photo
Tweet10 ==
    [ID |-> 10, Text |-> "ping me anytime @",
     Entities |-> Ref([URLs |-> Nil, Medias |-> Ref(<<Photo(4)>>)]),
     Reply |-> Nil, Retweet |-> Nil]

TweetPool == {Tweet60, Tweet50, Tweet40, Tweet30, Tweet20, Tweet10}

\* a tweet between Tweet60 and Tweet50, within the tolerance of neither
Tweet55 ==
    [ID |-> 55, Text |-> "lunch was great today, thanks",
     Entities |-> NoEntities, Reply |-> Nil, Retweet |-> Nil]

\* The data files that keep the order the program assumes: descending ids.
SortedArchives ==
    {a \in UNION {[1..n -> TweetPool \cup {Tweet55}] : n \in 0..MaxArchive} :
        \A x, y \in DOMAIN a : x < y => a[x].ID > a[y].ID}

\* The data files: any order (the program assumes descending ids, it does not
\* check them), ids unique.
Archives ==
    {a \in UNION {[1..n -> TweetPool] : n \in 0..MaxArchive} :
        \A x, y \in DOMAIN a : x # y => a[x].ID # a[y].ID}

Confs ==
    [DryRun : BOOLEAN, MaxTweetsToSync : {0, 1, 2}, MinTweetID : {0, 45}]

\* The statuses of the account before the first run, newest first.
InitialServers ==
    { <<>>,
      <<[ID |-> 2, Content |-> Render(tweetToTootV1(Tweet10))],
        [ID |-> 1, Content |-> Render(tweetToTootV1(Tweet60))]>>,
      <<[ID |-> 2, Content |-> Render("a native toot, not a tweet")],
        [ID |-> 1, Content |-> Render(tweetToTootV2(Tweet40))]>> }

(***************************************************************************)
(* Inputs of findMatchingStatus taken alone                                *)
(***************************************************************************)

\* bound: length of the status list handed to findMatchingStatus
MaxStatuses == 3

PlainTweet(id, text) ==
    [ID |-> id, Text |-> text, Entities |-> NoEntities, Reply |-> Nil, Retweet |-> Nil]

BasicText == "a basic tweet to match"

MatchTweets ==
    { PlainTweet(1, BasicText),
      PlainTweet(2, BasicText \o " (fuzzy)"),
      PlainTweet(3, BasicText \o " (fuzzy!)"),
      PlainTweet(4, BasicText \o " (fuzzy!!)"),
      PlainTweet(5, BasicText \o " (fuzzy, but overly slow)"),
      [ID |-> 6, Text |-> "links differ: https://short",
       Entities |-> Ref([URLs |-> Ref(<<[URL |-> "https://short",
                                         ExpandedURL |-> "https://a-long-link.example.com"]>>),
                         Medias |-> Nil]),
       Reply |-> Nil, Retweet |-> Nil],
      [ID |-> 7, Text |-> "read https://t.co/q1 today",
       Entities |-> Ref([URLs |-> Ref(<<[URL |-> "https://t.co/q1",
                                         ExpandedURL |-> "https://qself.io/q1"]>>),
                         Medias |-> Nil]),
       Reply |-> Nil, Retweet |-> Nil] }

\* statuses as the destination serves them
MatchStatuses ==
    { [ID |-> 1, Content |-> "<p>the first toot, it matches nothing</p>"],
      [ID |-> 2, Content |-> "<p>a basic tweet to match</p>"],
      [ID |-> 3, Content |-> "<p>a basic tweet to match (fuzzy!!)</p>"],
      [ID |-> 4, Content |-> "<p>links differ: https://a-long-link.example.com</p>"],
      [ID |-> 5, Content |-> "<p>links differ: https://short</p>"],
      [ID |-> 6, Content |-> "<p>read https://t.co/q1 today</p>"],
      [ID |-> 7, Content |-> "<p>read https://qself.io/q1 today</p>"] }

\* bound: number of candidates walked against one status list
MaxCandidates == 2

MatchCandidateLists ==
    {l \in UNION {[1..n -> MatchTweets] : n \in 1..MaxCandidates} :
        \A x, y \in DOMAIN l : x # y => l[x].ID # l[y].ID}

MatchStatusLists ==
    {l \in UNION {[1..n -> MatchStatuses] : n \in 0..MaxStatuses} :
        \A x, y \in DOMAIN l : x # y => l[x].ID # l[y].ID}


(***************************************************************************)
(* The pure functions, tabulated over the strings the inputs above can     *)
(* produce: each table holds the function's value, computed by the         *)
(* definitions above, for every argument a run can hand to it.             *)
(***************************************************************************)

KnownTweets == TweetPool \cup {Tweet55} \cup MatchTweets

PostedTexts ==
    {tweetToToot(impl, t) : impl \in {"tweetToTootV1", "tweetToTootV2"},
                            t \in TweetPool \cup {Tweet55}}

\* The function [x \in S |-> Op(x)], every value computed
RECURSIVE Tabulate(_, _)
Tabulate(Op(_), S) ==
    IF S = {} THEN <<>>
    ELSE LET x == CHOOSE y \in S : TRUE
         IN  (x :> Op(x)) @@ Tabulate(Op, S \ {x})

RenderTable == Tabulate(Render, PostedTexts)

\* Render, looked up
Rendered(text) == RenderTable[text]

KnownContents ==
    {RenderTable[text] : text \in PostedTexts}
    \cup UNION {{l[k].Content : k \in DOMAIN l} : l \in InitialServers}
    \cup {st.Content : st \in MatchStatuses}

tootToTweetTable == Tabulate(LAMBDA c : tootToTweet([Content |-> c]), KnownContents)

tweetToTootTable ==
    Tabulate(LAMBDA impl : Tabulate(LAMBDA t : tweetToToot(impl, t), KnownTweets),
             {"tweetToTootV1", "tweetToTootV2"})

Range(f) == {f[x] : x \in DOMAIN f}

ComputeDistanceTable ==
    Tabulate(LAMBDA a : Tabulate(LAMBDA b : ComputeDistance(a, b),
                                 UNION {Range(tweetToTootTable[impl]) :
                                           impl \in DOMAIN tweetToTootTable}),
             Range(tootToTweetTable))

\* tootToTweet(status), looked up
Normalized(status) == tootToTweetTable[status.Content]

\* tweetToToot(tweet) for one of the implementations, looked up
Transformed(impl, tweet) == tweetToTootTable[impl][tweet]

\* levenshtein.ComputeDistance(a, b), looked up
Distance(a, b) == ComputeDistanceTable[a][b]

(***************************************************************************)
(* findMatchingStatus                                                      *)
(***************************************************************************)

\* variant: a distance equal to the tolerance is accepted
WithinToleranceInclusive(d) == d <= levenshteinDistanceTolerance

\* if distance < levenshteinDistanceTolerance
WithinTolerance(d) == d < levenshteinDistanceTolerance

\* The inner loop over the implementations, from implementation m on, for
\* one status whose normalized content is originalContent: the first distance
\* within the tolerance, or the last distance computed.  ImplementationCheck
\* is the loop body once the distance d of implementation m is computed.
RECURSIVE ImplementationsLoop(_, _, _, _)
ImplementationCheck(originalContent, tweet, m, d) ==
    IF WithinTolerance(d)
    THEN [found |-> TRUE, distance |-> d]
    ELSE ImplementationsLoop(originalContent, tweet, m + 1, d)

ImplementationsLoop(originalContent, tweet, m, dist) ==
    IF m > Len(tweetToTootImplementations) THEN [found |-> FALSE, distance |-> dist]
    ELSE ImplementationCheck(originalContent, tweet, m,
             Distance(originalContent, Transformed(tweetToTootImplementations[m], tweet)))

\* The outer loop over the statuses, from status k on; dist is the value the
\* variable distance holds, and the result carries the value it has when the
\* loops are left.  StatusCheck is the loop body once the inner loop has
\* given r.
RECURSIVE StatusChecksLoop(_, _, _, _)
StatusCheck(statusList, tweet, k, r) ==
    IF r.found
    THEN [matchingStatus |-> Ref(statusList[k]), distance |-> r.distance]
    ELSE StatusChecksLoop(statusList, tweet, k + 1, r.distance)

StatusChecksLoop(statusList, tweet, k, dist) ==
    IF k > Len(statusList) THEN [matchingStatus |-> Nil, distance |-> dist]
    ELSE StatusCheck(statusList, tweet, k,
             ImplementationsLoop(Normalized(statusList[k]), tweet, 1, dist))

NoMatch == [matchingStatus |-> Nil, distance |-> 0]

\* variant: the distance left by the loops is returned as it is
StatusChecksEndLastDistance(r) == r

\* after the loops: if matchingStatus == nil { distance = 0 }
StatusChecksEnd(r) ==
    IF r.matchingStatus = Nil THEN [r EXCEPT !.distance = 0] ELSE r

findMatchingStatus(statusList, tweet) ==
    StatusChecksEnd(StatusChecksLoop(statusList, tweet, 1, 0))

(***************************************************************************)
(* State                                                                   *)
(*                                                                         *)
(* The program is run again and again (MaxRuns times) on one data file and *)
(* one configuration.  The account starts with any of InitialServers;     *)
(* after that only the program's PostStatus calls add statuses to it, so   *)
(* the newest status of the account is always the program's last post.    *)
(* GetAccountStatuses returns the PageLimit most recent statuses.  Every   *)
(* collaborator call (reading the file, the Mastodon client, fetchURL,     *)
(* ioutil.TempDir) either succeeds or returns an error.                    *)
(***************************************************************************)

VARIABLES
    archive,          \* the tweets of the data file named on the command line
    conf,             \* Conf, decoded from the environment
    server,           \* the account's statuses on the destination, newest first
    runs,             \* number of runs of the program started so far
    pc,               \* position of the current run in syncTwitter
    allTweets,        \* syncTwitter's locals
    tweetCandidates,
    statuses,
    tweetsToSync,
    walk,             \* index into tweetCandidates of the loop that fills tweetsToSync
    syncIndex,        \* i: into tweetsToSync of the sync loop, 1-based
    tweetsSynced,
    tempDir,          \* TRUE while the temporary media directory exists
    result,           \* what the last run returned: "nil" or an error
    calls,            \* collaborator calls of the current run, in order
    matched,          \* ids of the tweets handed to findMatchingStatus in this run
    lastMatch,        \* matchingStatus and distance of the walk's last iteration
    postLog,          \* successful PostStatus calls of all runs: [ID, run]
    serverBefore,     \* the account's statuses when the current run started
    failure,          \* the collaborator call that failed in the current run
    previousFailure,  \* the call of syncMedia or syncTweet that failed in the run before
    frame             \* a transformer or tootToTweet taken alone: its locals

vars ==
    <<archive, conf, server, runs, pc, allTweets, tweetCandidates, statuses,
      tweetsToSync, walk, syncIndex, tweetsSynced, tempDir, result, calls, matched,
      lastMatch, postLog, serverBefore, failure, previousFailure, frame>>

locals == <<allTweets, tweetCandidates, statuses, tweetsToSync, walk, syncIndex, tweetsSynced>>

inputs == <<archive, conf>>

history == <<serverBefore, failure, previousFailure>>

\* the calls of syncMedia and syncTweet
SyncOps == {"fetchURL", "UploadMedia", "PostStatus"}

\* no collaborator call has failed
NoFailure == [op |-> "", tweet |-> 0]

\* no function is taken alone
NoFrame == <<>>

Init ==
    /\ archive \in Archives
    /\ conf \in Confs
    /\ server \in InitialServers
    /\ runs = 0
    /\ pc = "idle"
    /\ allTweets = <<>>
    /\ tweetCandidates = <<>>
    /\ statuses = <<>>
    /\ tweetsToSync = <<>>
    /\ walk = 1
    /\ syncIndex = 0
    /\ tweetsSynced = 0
    /\ tempDir = FALSE
    /\ result = "none"
    /\ calls = <<>>
    /\ matched = <<>>
    /\ lastMatch = NoMatch
    /\ postLog = <<>>
    /\ serverBefore = server
    /\ failure = NoFailure
    /\ previousFailure = NoFailure
    /\ frame = NoFrame

(***************************************************************************)
(* syncTwitter, step by step                                               *)
(***************************************************************************)

\* variant: os.RemoveAll(tempDir) is not deferred, it is the last statement of
\* syncTwitter and an error return leaves before it
ReturnRemoveAllAtEnd(err) ==
    /\ pc' = "idle"
    /\ result' = err
    /\ tempDir' = IF err = "nil" THEN FALSE ELSE tempDir

\* syncTwitter returns err (or nil); the deferred os.RemoveAll(tempDir) runs.
Return(err) ==
    /\ pc' = "idle"
    /\ result' = err
    /\ tempDir' = FALSE

\* a collaborator call made for this tweet (0: for none) returns an error
Fail(op, id) ==
    /\ failure' = [op |-> op, tweet |-> id]
    /\ UNCHANGED <<serverBefore, previousFailure>>

\* main: one scheduled run of the program
main ==
    /\ pc = "idle"
    /\ runs < MaxRuns
    /\ runs' = runs + 1
    /\ pc' = "readTweetsFromFile"
    /\ allTweets' = <<>>
    /\ tweetCandidates' = <<>>
    /\ statuses' = <<>>
    /\ tweetsToSync' = <<>>
    /\ walk' = 1
    /\ syncIndex' = 0
    /\ tweetsSynced' = 0
    /\ result' = "none"
    /\ calls' = <<>>
    /\ matched' = <<>>
    /\ lastMatch' = NoMatch
    /\ serverBefore' = server
    /\ previousFailure' = IF failure.op \in SyncOps THEN failure ELSE NoFailure
    /\ failure' = NoFailure
    /\ UNCHANGED <<inputs, frame, server, tempDir, postLog>>

readTweetsFromFile ==
    /\ pc = "readTweetsFromFile"
    /\ allTweets' = archive
    /\ pc' = "tweetCandidates"
    /\ UNCHANGED <<inputs, history, frame, server, runs, tweetCandidates, statuses, tweetsToSync,
                   walk, syncIndex, tweetsSynced, tempDir, result, calls, matched,
                   lastMatch, postLog>>

readTweetsFromFileError ==
    /\ pc = "readTweetsFromFile"
    /\ Fail("readTweetsFromFile", 0)
    /\ Return("error reading source twitter data file")
    /\ UNCHANGED <<inputs, frame, server, runs, locals, calls, matched, lastMatch, postLog>>

\* variant: a tweet below MinTweetID is skipped and the loop goes on
RECURSIVE CandidatesFromContinue(_, _, _)
CandidatesFromContinue(tweets, minTweetID, k) ==
    IF k > Len(tweets) THEN <<>>
    ELSE IF tweets[k].ID < minTweetID
         THEN CandidatesFromContinue(tweets, minTweetID, k + 1)
    ELSE IF tweets[k].Reply # Nil \/ HasSuffix(tweets[k].Text, "@")
         THEN CandidatesFromContinue(tweets, minTweetID, k + 1)
    ELSE <<tweets[k]>> \o CandidatesFromContinue(tweets, minTweetID, k + 1)

\* variant: replies and @'s are not left out
RECURSIVE CandidatesFromUnfiltered(_, _, _)
CandidatesFromUnfiltered(tweets, minTweetID, k) ==
    IF k > Len(tweets) THEN <<>>
    ELSE IF tweets[k].ID < minTweetID THEN <<>>
    ELSE <<tweets[k]>> \o CandidatesFromUnfiltered(tweets, minTweetID, k + 1)

\* the candidate loop, from tweet k of the file on
RECURSIVE CandidatesFrom(_, _, _)
CandidatesFrom(tweets, minTweetID, k) ==
    IF k > Len(tweets) THEN <<>>
    ELSE IF tweets[k].ID < minTweetID THEN <<>>
    ELSE IF tweets[k].Reply # Nil \/ HasSuffix(tweets[k].Text, "@")
         THEN CandidatesFrom(tweets, minTweetID, k + 1)
    ELSE <<tweets[k]>> \o CandidatesFrom(tweets, minTweetID, k + 1)

selectCandidates ==
    /\ pc = "tweetCandidates"
    /\ tweetCandidates' = CandidatesFrom(allTweets, conf.MinTweetID, 1)
    /\ pc' = "GetAccountCurrentUser"
    /\ UNCHANGED <<inputs, history, frame, server, runs, allTweets, statuses, tweetsToSync,
                   walk, syncIndex, tweetsSynced, tempDir, result, calls, matched,
                   lastMatch, postLog>>

GetAccountCurrentUser ==
    /\ pc = "GetAccountCurrentUser"
    /\ pc' = "GetAccountStatuses"
    /\ UNCHANGED <<inputs, history, frame, server, runs, locals, tempDir, result, calls, matched,
                   lastMatch, postLog>>

GetAccountCurrentUserError ==
    /\ pc = "GetAccountCurrentUser"
    /\ Fail("GetAccountCurrentUser", 0)
    /\ Return("error getting current user account")
    /\ UNCHANGED <<inputs, frame, server, runs, locals, calls, matched, lastMatch, postLog>>

\* client.GetAccountStatuses(ctx, account.ID, nil): the most recent statuses
GetAccountStatuses ==
    /\ pc = "GetAccountStatuses"
    /\ statuses' = SubSeq(server, 1, Min(PageLimit, Len(server)))
    /\ pc' = "tweetsToSync"
    /\ UNCHANGED <<inputs, history, frame, server, runs, allTweets, tweetCandidates, tweetsToSync,
                   walk, syncIndex, tweetsSynced, tempDir, result, calls, matched,
                   lastMatch, postLog>>

\* variant: the error is not returned and the run goes on without statuses
GetAccountStatusesErrorIgnored ==
    /\ pc = "GetAccountStatuses"
    /\ Fail("GetAccountStatuses", 0)
    /\ statuses' = <<>>
    /\ pc' = "tweetsToSync"
    /\ UNCHANGED <<inputs, frame, server, runs, allTweets, tweetCandidates, tweetsToSync,
                   walk, syncIndex, tweetsSynced, tempDir, result, calls, matched,
                   lastMatch, postLog>>

\* client.GetAccountStatuses when the account has no more statuses than one
\* call returns: all of them
GetAllAccountStatuses ==
    /\ pc = "GetAccountStatuses"
    /\ statuses' = server
    /\ pc' = "tweetsToSync"
    /\ UNCHANGED <<inputs, history, frame, server, runs, allTweets, tweetCandidates,
                   tweetsToSync, walk, syncIndex, tweetsSynced, tempDir, result, calls,
                   matched, lastMatch, postLog>>

GetAccountStatusesError ==
    /\ pc = "GetAccountStatuses"
    /\ Fail("GetAccountStatuses", 0)
    /\ Return("error getting statuses")
    /\ UNCHANGED <<inputs, frame, server, runs, locals, calls, matched, lastMatch, postLog>>

\* variant: a matching tweet is passed over and the loop goes on
walkCandidateNoBreak ==
    /\ pc = "tweetsToSync"
    /\ walk <= Len(tweetCandidates)
    /\ \E m \in {findMatchingStatus(statuses, tweetCandidates[walk])} :
           /\ matched' = Append(matched, tweetCandidates[walk].ID)
           /\ lastMatch' = m
           /\ tweetsToSync' = IF m.matchingStatus = Nil
                              THEN Append(tweetsToSync, tweetCandidates[walk])
                              ELSE tweetsToSync
    /\ walk' = walk + 1
    /\ UNCHANGED <<inputs, history, frame, server, runs, pc, allTweets, tweetCandidates, statuses,
                   syncIndex, tweetsSynced, tempDir, result, calls, postLog>>

\* one iteration of the loop over tweetCandidates that fills tweetsToSync
walkCandidate ==
    /\ pc = "tweetsToSync"
    /\ walk <= Len(tweetCandidates)
    /\ \E m \in {findMatchingStatus(statuses, tweetCandidates[walk])} :
           /\ matched' = Append(matched, tweetCandidates[walk].ID)
           /\ lastMatch' = m
           /\ IF m.matchingStatus = Nil
              THEN /\ tweetsToSync' = Append(tweetsToSync, tweetCandidates[walk])
                   /\ walk' = walk + 1
                   /\ pc' = "tweetsToSync"
              ELSE /\ pc' = "tempDir"
                   /\ UNCHANGED <<tweetsToSync, walk>>
    /\ UNCHANGED <<inputs, history, frame, server, runs, allTweets, tweetCandidates, statuses,
                   syncIndex, tweetsSynced, tempDir, result, calls, postLog>>

\* the loop over tweetCandidates ends without a match
walkDone ==
    /\ pc = "tweetsToSync"
    /\ walk > Len(tweetCandidates)
    /\ pc' = "tempDir"
    /\ UNCHANGED <<inputs, history, frame, server, runs, locals, tempDir, result, calls, matched,
                   lastMatch, postLog>>

\* if len(tweetsToSync) < 1 { return nil }
nothingToSync ==
    /\ pc = "tempDir"
    /\ Len(tweetsToSync) < 1
    /\ Return("nil")
    /\ UNCHANGED <<inputs, history, frame, server, runs, locals, calls, matched, lastMatch, postLog>>

\* ioutil.TempDir; tweetsSynced := 0; the sync loop starts at the last element
TempDir ==
    /\ pc = "tempDir"
    /\ ~(Len(tweetsToSync) < 1)
    /\ tempDir' = TRUE
    /\ tweetsSynced' = 0
    /\ syncIndex' = Len(tweetsToSync)
    /\ pc' = "syncTweet"
    /\ UNCHANGED <<inputs, history, frame, server, runs, allTweets, tweetCandidates, statuses,
                   tweetsToSync, walk, result, calls, matched, lastMatch, postLog>>

TempDirError ==
    /\ pc = "tempDir"
    /\ ~(Len(tweetsToSync) < 1)
    /\ Fail("TempDir", 0)
    /\ Return("error creating temp dir")
    /\ UNCHANGED <<inputs, frame, server, runs, locals, calls, matched, lastMatch, postLog>>

(***************************************************************************)
(* syncMedia and syncTweet                                                 *)
(***************************************************************************)

Call(op, tweet, media, status, mediaIDs) ==
    [op |-> op, tweet |-> tweet.ID, media |-> media, status |-> status,
     mediaIDs |-> mediaIDs, ok |-> TRUE]

\* the photos among medias, from media k on
RECURSIVE Photos(_, _)
Photos(medias, k) ==
    IF k > Len(medias) THEN <<>>
    ELSE IF medias[k].Type # "photo" THEN Photos(medias, k + 1)
    ELSE <<medias[k]>> \o Photos(medias, k + 1)

\* The medias syncMedia's loop body handles (none when the early return is taken)
SyncedMedias(tweet) ==
    IF tweet.Entities = Nil \/ Deref(tweet.Entities).Medias = Nil THEN <<>>
    ELSE Photos(Deref(Deref(tweet.Entities).Medias), 1)

\* variant: syncMedia uploads whatever conf.DryRun says
RECURSIVE MediaCallsUploadAlways(_, _, _, _)
MediaCallsUploadAlways(tweet, photos, dryRun, k) ==
    IF k > Len(photos) THEN <<>>
    ELSE <<Call("fetchURL", tweet, photos[k].ID, "", <<>>),
           Call("UploadMedia", tweet, photos[k].ID, "", <<>>)>>
         \o MediaCallsUploadAlways(tweet, photos, dryRun, k + 1)

\* the collaborator calls of syncMedia when none fails, from photo k on
RECURSIVE MediaCalls(_, _, _, _)
MediaCalls(tweet, photos, dryRun, k) ==
    IF k > Len(photos) THEN <<>>
    ELSE <<Call("fetchURL", tweet, photos[k].ID, "", <<>>)>>
         \o (IF dryRun THEN <<>>
             ELSE <<Call("UploadMedia", tweet, photos[k].ID, "", <<>>)>>)
         \o MediaCalls(tweet, photos, dryRun, k + 1)

\* attachmentIDs as syncMedia returns them when no call fails
AttachmentIDs(tweet, dryRun) ==
    IF dryRun THEN <<>>
    ELSE [k \in 1..Len(SyncedMedias(tweet)) |-> SyncedMedias(tweet)[k].ID]

\* variant: the new version's text is posted
PostedStatusNewVersion(tweet) == Transformed("tweetToTootV2", tweet)

\* the status text syncTweet hands to client.PostStatus
PostedStatus(tweet) == tweetToTootV1(tweet)

\* the collaborator calls of syncTweet when none fails
SyncTweetCalls(tweet, dryRun) ==
    MediaCalls(tweet, SyncedMedias(tweet), dryRun, 1)
    \o (IF dryRun THEN <<>>
        ELSE <<Call("PostStatus", tweet, 0, PostedStatus(tweet),
                    AttachmentIDs(tweet, dryRun))>>)

\* the calls made when call number failAt returns an error
FailedCalls(planned, failAt) ==
    [k \in 1..failAt |-> IF k = failAt THEN [planned[k] EXCEPT !.ok = FALSE]
                                       ELSE planned[k]]

\* the status the destination stores for a successful PostStatus
NewStatus(text) == [ID |-> Len(server) + 1, Content |-> Rendered(text)]

\* variant: the loop moves from the first element on
SyncLoopTweetForward == tweetsToSync[Len(tweetsToSync) + 1 - syncIndex]

\* tweet := tweetsToSync[i]
SyncLoopTweet == tweetsToSync[syncIndex]

\* variant: the maximum is passed by one
HitMaximumLate == tweetsSynced > conf.MaxTweetsToSync

\* variant: the maximum is hit one tweet early
HitMaximumEarly == tweetsSynced + 1 >= conf.MaxTweetsToSync

\* if tweetsSynced >= conf.MaxTweetsToSync
HitMaximum == tweetsSynced >= conf.MaxTweetsToSync

\* one iteration of the sync loop in which syncTweet returns nil
syncTweet ==
    /\ pc = "syncTweet"
    /\ syncIndex >= 1
    /\ ~HitMaximum
    /\ LET tweet == SyncLoopTweet
       IN  /\ calls' = calls \o SyncTweetCalls(tweet, conf.DryRun)
           /\ IF conf.DryRun
              THEN UNCHANGED <<server, postLog>>
              ELSE /\ server' = <<NewStatus(PostedStatus(tweet))>> \o server
                   /\ postLog' = Append(postLog, [ID |-> tweet.ID, run |-> runs])
    /\ tweetsSynced' = tweetsSynced + 1
    /\ syncIndex' = syncIndex - 1
    /\ UNCHANGED <<inputs, history, frame, runs, pc, allTweets, tweetCandidates, statuses,
                   tweetsToSync, walk, tempDir, result, matched, lastMatch>>

\* variant: the error of syncTweet is passed over and the loop goes on
syncTweetErrorContinue ==
    /\ pc = "syncTweet"
    /\ syncIndex >= 1
    /\ ~HitMaximum
    /\ LET planned == SyncTweetCalls(SyncLoopTweet, conf.DryRun)
       IN  \E failAt \in 1..Len(planned) :
               /\ calls' = calls \o FailedCalls(planned, failAt)
               /\ Fail(planned[failAt].op, planned[failAt].tweet)
    /\ syncIndex' = syncIndex - 1
    /\ UNCHANGED <<inputs, frame, server, runs, pc, allTweets, tweetCandidates,
                   statuses, tweetsToSync, walk, tweetsSynced, tempDir, result,
                   matched, lastMatch, postLog>>

\* one iteration of the sync loop in which a call of syncMedia or PostStatus
\* fails: syncTweet returns the error and so does syncTwitter
syncTweetError ==
    /\ pc = "syncTweet"
    /\ syncIndex >= 1
    /\ ~HitMaximum
    /\ LET planned == SyncTweetCalls(SyncLoopTweet, conf.DryRun)
       IN  \E failAt \in 1..Len(planned) :
               /\ calls' = calls \o FailedCalls(planned, failAt)
               /\ Fail(planned[failAt].op, planned[failAt].tweet)
    /\ Return("error syncing tweet")
    /\ UNCHANGED <<inputs, frame, server, runs, locals, matched, lastMatch, postLog>>

\* if tweetsSynced >= conf.MaxTweetsToSync { break }
syncLoopBreak ==
    /\ pc = "syncTweet"
    /\ syncIndex >= 1
    /\ HitMaximum
    /\ Return("nil")
    /\ UNCHANGED <<inputs, history, frame, server, runs, locals, calls, matched, lastMatch, postLog>>

\* the sync loop ends: syncIndex < 0 in the program's 0-based index
syncLoopEnd ==
    /\ pc = "syncTweet"
    /\ syncIndex < 1
    /\ Return("nil")
    /\ UNCHANGED <<inputs, history, frame, server, runs, locals, calls, matched, lastMatch, postLog>>

Next ==
    \/ main
    \/ readTweetsFromFile
    \/ readTweetsFromFileError
    \/ selectCandidates
    \/ GetAccountCurrentUser
    \/ GetAccountCurrentUserError
    \/ GetAccountStatuses
    \/ GetAccountStatusesError
    \/ walkCandidate
    \/ walkDone
    \/ nothingToSync
    \/ TempDir
    \/ TempDirError
    \/ syncTweet
    \/ syncTweetError
    \/ syncLoopBreak
    \/ syncLoopEnd

Spec == Init /\ [][Next]_vars

(***************************************************************************)
(* findMatchingStatus taken alone: a run stands at the loop that fills     *)
(* tweetsToSync, with candidates and a list of statuses drawn from the     *)
(* inputs above.                                                           *)
(***************************************************************************)

InitMatch ==
    /\ archive \in MatchCandidateLists
    /\ allTweets = archive
    /\ tweetCandidates = archive
    /\ conf \in {c \in Confs : c.DryRun /\ c.MinTweetID = 0 /\ c.MaxTweetsToSync = 0}
    /\ server \in MatchStatusLists
    /\ statuses = server
    /\ runs = 1
    /\ pc = "tweetsToSync"
    /\ tweetsToSync = <<>>
    /\ walk = 1
    /\ syncIndex = 0
    /\ tweetsSynced = 0
    /\ tempDir = FALSE
    /\ result = "none"
    /\ calls = <<>>
    /\ matched = <<>>
    /\ lastMatch = NoMatch
    /\ postLog = <<>>
    /\ serverBefore = server
    /\ failure = NoFailure
    /\ previousFailure = NoFailure
    /\ frame = NoFrame

NextMatch ==
    \/ walkCandidate
    \/ walkDone

SpecMatch == InitMatch /\ [][NextMatch]_vars

(***************************************************************************)
(* Repeated runs without failures: the data file is sorted by descending   *)
(* id, DryRun is off, MaxTweetsToSync is at least 1, no collaborator call  *)
(* fails and GetAccountStatuses returns every status of the account.  A    *)
(* run that is started runs to its end and the runs follow one another.    *)
(***************************************************************************)

InitRuns ==
    /\ archive \in SortedArchives
    /\ conf \in {c \in Confs : ~c.DryRun /\ c.MaxTweetsToSync >= 1}
    /\ server \in InitialServers
    /\ runs = 0
    /\ pc = "idle"
    /\ allTweets = <<>>
    /\ tweetCandidates = <<>>
    /\ statuses = <<>>
    /\ tweetsToSync = <<>>
    /\ walk = 1
    /\ syncIndex = 0
    /\ tweetsSynced = 0
    /\ tempDir = FALSE
    /\ result = "none"
    /\ calls = <<>>
    /\ matched = <<>>
    /\ lastMatch = NoMatch
    /\ postLog = <<>>
    /\ serverBefore = server
    /\ failure = NoFailure
    /\ previousFailure = NoFailure
    /\ frame = NoFrame

NextRuns ==
    \/ main
    \/ readTweetsFromFile
    \/ selectCandidates
    \/ GetAccountCurrentUser
    \/ GetAllAccountStatuses
    \/ walkCandidate
    \/ walkDone
    \/ nothingToSync
    \/ TempDir
    \/ syncTweet
    \/ syncLoopBreak
    \/ syncLoopEnd

SpecRuns == InitRuns /\ [][NextRuns]_vars /\ WF_vars(NextRuns)

(***************************************************************************)
(* tweetToTootV2 taken alone, statement by statement: frame holds the      *)
(* tweet it was called with, its local content, the position k of the loop *)
(* over tweet.Entities.URLs and the statement reached.                     *)
(***************************************************************************)

\* bound: number of URL entities of a tweet
MaxURLs == 2

URLEntity(short, expanded) == [URL |-> short, ExpandedURL |-> expanded]

\* short forms that overlap, that lie inside one another, and the empty one
ShortForms == {"ab", "bc", "b", ""}

ExpandedForms == {"x", "yy", "abc"}

URLLists ==
    UNION {[1..n -> {URLEntity(sh, ex) : sh \in ShortForms, ex \in ExpandedForms}] :
              n \in 0..MaxURLs}

\* tweets with URL entities only
URLTweets ==
    {[ID |-> 1, Text |-> text, Entities |-> Ref([URLs |-> Ref(urls), Medias |-> Nil]),
      Reply |-> Nil, Retweet |-> Nil] :
        text \in {"ab bc", "abc", "ab ab", "see b", ""}, urls \in URLLists}

\* the shapes of Entities: absent, or with each list absent, empty or filled
EntitiesShapes ==
    {NoEntities} \cup
    {Ref([URLs |-> urls, Medias |-> medias]) :
        urls \in {Nil, Ref(<<URLEntity("https://t.co/abcde", "https://brandur.org/a")>>)},
        medias \in {Nil, Ref(<<>>), Ref(<<Photo(1)>>), Ref(<<Video(2)>>)}}

\* tweets with a t.co link at the end, or nearly so, in every shape
MediaTweets ==
    {[ID |-> 2, Text |-> text, Entities |-> entities, Reply |-> Nil, Retweet |-> retweet] :
        text \in {"pic https://t.co/abcde", "pic https://t.co/abcd",
                  "pic https://t.co/abcde ", "https://t.co/abcde",
                  "a https://t.co/abcde b https://t.co/fghij_9"},
        entities \in EntitiesShapes,
        retweet \in {Nil, Ref([StatusID |-> 123, User |-> "u"])}}

\* the tweets of TestTweetToTootV2
TestTweets ==
    { [ID |-> 3, Text |-> "A tweet containing nothing interesting",
       Entities |-> NoEntities, Reply |-> Nil, Retweet |-> Nil],
      [ID |-> 4, Text |-> "A tweet containing https://short1 and https://short2",
       Entities |-> Ref([URLs |-> Ref(<<URLEntity("https://short1", "https://long1"),
                                        URLEntity("https://short2", "https://long2")>>),
                         Medias |-> Nil]),
       Reply |-> Nil, Retweet |-> Nil],
      [ID |-> 5, Text |-> "A tweet containing media and an automatic link https://t.co/YuY4wvg3uM",
       Entities |-> Ref([URLs |-> Nil, Medias |-> Ref(<<Photo(1)>>)]),
       Reply |-> Nil, Retweet |-> Nil],
      [ID |-> 6, Text |-> "A tweet containing media and an automatic link https://t.co/YuY4wvg3uM",
       Entities |-> NoEntities, Reply |-> Nil, Retweet |-> Nil],
      [ID |-> 7, Text |-> "RT @user A tweet that's been truncated ...",
       Entities |-> NoEntities, Reply |-> Nil,
       Retweet |-> Ref([StatusID |-> 1234567890, User |-> "user"])] }

V2Tweets == URLTweets \cup MediaTweets \cup TestTweets

\* every variable of syncTwitter and of the runs
program ==
    <<archive, conf, server, runs, pc, allTweets, tweetCandidates, statuses,
      tweetsToSync, walk, syncIndex, tweetsSynced, tempDir, result, calls, matched,
      lastMatch, postLog, serverBefore, failure, previousFailure>>

\* no run of the program is under way
NoProgram ==
    /\ archive = <<>>
    /\ conf = [DryRun |-> TRUE, MaxTweetsToSync |-> 0, MinTweetID |-> 0]
    /\ server = <<>>
    /\ runs = 0
    /\ pc = "idle"
    /\ allTweets = <<>>
    /\ tweetCandidates = <<>>
    /\ statuses = <<>>
    /\ tweetsToSync = <<>>
    /\ walk = 1
    /\ syncIndex = 0
    /\ tweetsSynced = 0
    /\ tempDir = FALSE
    /\ result = "none"
    /\ calls = <<>>
    /\ matched = <<>>
    /\ lastMatch = NoMatch
    /\ postLog = <<>>
    /\ serverBefore = <<>>
    /\ failure = NoFailure
    /\ previousFailure = NoFailure

InitV2 ==
    /\ NoProgram
    /\ frame \in {[at |-> "URLs", tweet |-> t, content |-> t.Text, k |-> 1] : t \in V2Tweets}

\* tweet.Entities.URLs, empty when tweet.Entities or the list is nil
EntitiesURLs(tweet) ==
    IF tweet.Entities # Nil /\ Deref(tweet.Entities).URLs # Nil
    THEN Deref(Deref(tweet.Entities).URLs)
    ELSE <<>>

\* variant: only the first occurrence is replaced
expandURLOnce ==
    /\ frame.at = "URLs"
    /\ frame.k <= Len(EntitiesURLs(frame.tweet))
    /\ \E url \in {EntitiesURLs(frame.tweet)[frame.k]} :
          frame' = [frame EXCEPT
                       !.content = IF IndexFrom(@, url.URL, 1) = 0 THEN @
                                   ELSE SubSeq(@, 1, IndexFrom(@, url.URL, 1) - 1)
                                        \o url.ExpandedURL
                                        \o StrFrom(@, IndexFrom(@, url.URL, 1) + Len(url.URL)),
                       !.k = @ + 1]
    /\ UNCHANGED program

\* content = strings.Replace(content, url.URL, url.ExpandedURL, -1)
expandURL ==
    /\ frame.at = "URLs"
    /\ frame.k <= Len(EntitiesURLs(frame.tweet))
    /\ \E url \in {EntitiesURLs(frame.tweet)[frame.k]} :
          frame' = [frame EXCEPT !.content = Replace(@, url.URL, url.ExpandedURL),
                                 !.k = @ + 1]
    /\ UNCHANGED program

\* the loop over the URLs ends, or the if around it is not taken
expandDone ==
    /\ frame.at = "URLs"
    /\ frame.k > Len(EntitiesURLs(frame.tweet))
    /\ frame' = [frame EXCEPT !.at = "Medias"]
    /\ UNCHANGED program

\* if tweet.Entities != nil && tweet.Entities.Medias != nil
MediasNotNil(tweet) == tweet.Entities # Nil /\ Deref(tweet.Entities).Medias # Nil

\* content = endTcoShortLinkRE.ReplaceAllString(content, "")
stripShortLink ==
    /\ frame.at = "Medias"
    /\ MediasNotNil(frame.tweet)
    /\ frame' = [frame EXCEPT !.content = endTcoShortLinkRE(@), !.at = "Retweet"]
    /\ UNCHANGED program

keepShortLink ==
    /\ frame.at = "Medias"
    /\ ~MediasNotNil(frame.tweet)
    /\ frame' = [frame EXCEPT !.at = "Retweet"]
    /\ UNCHANGED program

\* variant: one newline before the link
retweetURLOneNewline(retweet) ==
    "\n" \o "https://twitter.com/" \o retweet.User \o "/status/" \o ToString(retweet.StatusID)

\* "\n\n" + fmt.Sprintf("https://twitter.com/%s/status/%v", User, StatusID)
retweetURL(retweet) ==
    "\n\n" \o "https://twitter.com/" \o retweet.User \o "/status/" \o ToString(retweet.StatusID)

\* content += "\n\n" + retweetURL
appendRetweetURL ==
    /\ frame.at = "Retweet"
    /\ frame.tweet.Retweet # Nil
    /\ frame' = [frame EXCEPT !.content = @ \o retweetURL(Deref(frame.tweet.Retweet)),
                              !.at = "return"]
    /\ UNCHANGED program

noRetweet ==
    /\ frame.at = "Retweet"
    /\ frame.tweet.Retweet = Nil
    /\ frame' = [frame EXCEPT !.at = "return"]
    /\ UNCHANGED program

NextV2 ==
    \/ expandURL
    \/ expandDone
    \/ stripShortLink
    \/ keepShortLink
    \/ appendRetweetURL
    \/ noRetweet

SpecV2 == InitV2 /\ [][NextV2]_vars

(***************************************************************************)
(* tootToTweet taken alone, statement by statement: frame holds the status *)
(* it was called with, its local content and the statement reached.        *)
(***************************************************************************)

\* the contents of TestTootToTweet that are plain ASCII
TestContents ==
    { "<p>Nice thinking around easing Ractors into the Ruby ecosystem from @kirshatrov.</p><p>Ruby relies heavily on global state so bringing them in at the &quot;top&quot; will be difficult initially, but they&apos;re more amenable at the &quot;bottom&quot; where less state needs to be shared.</p><p><a href=\"https://t.co/EF80vm1hEU\" rel=\"nofollow noopener noreferrer\" target=\"_blank\"><span class=\"invisible\">https://</span><span class=\"\">t.co/EF80vm1hEU</span><span class=\"invisible\"></span></a></p>",
      "<p>A few romantic shots of Banff to help get your week started. Can&apos;t believe I&apos;m still hiking in January. <a href=\"https://t.co/W5dsoSK8u7\" rel=\"nofollow noopener noreferrer\" target=\"_blank\"><span class=\"invisible\">https://</span><span class=\"\">t.co/W5dsoSK8u7</span><span class=\"invisible\"></span></a></p>" }

\* escaped markup, repeated paragraph boundaries, malformed markup
OddContents ==
    { "", "plain", "</p><p>", "<p>a</p><p>b</p><p>c</p>", "<p>&lt;p&gt; tag</p>",
      "<p>x &lt;/p&gt;&lt;p&gt; y</p>", "&amp;lt;p&amp;gt;", "<p>1 &lt; 2 &amp; 3 &gt; 2</p>",
      "<p", "a < b", "<!-- c", "<!-- c --> d", "<a href=\"x>y\">z</a>", "<<p>b>",
      "<a</p><p>b>", "&lt;b>bold&lt;/b>", "<p>it&#39;s</p>", "<p>a<br />b</p>",
      "&", "&;", "</p></p><p><p>" }

TootContents == KnownContents \cup TestContents \cup OddContents

InitToot ==
    /\ NoProgram
    /\ frame \in {[at |-> "Replace", status |-> [Content |-> c], content |-> c] :
                     c \in TootContents}

\* strings.Replace(content, "</p><p>", "\n\n", -1), computed once for each
\* content
ParagraphsTable == Tabulate(LAMBDA c : Replace(c, "</p><p>", "\n\n"), TootContents)

\* strip.StripTags, computed once for each content that reaches it
StripTagsTable == Tabulate(StripTags, Range(ParagraphsTable))

\* html.UnescapeString, computed once for each content that reaches it
UnescapeStringTable == Tabulate(UnescapeString, Range(StripTagsTable))

\* content = strings.Replace(content, "</p><p>", "\n\n", -1)
replaceParagraphs ==
    /\ frame.at = "Replace"
    /\ frame' = [frame EXCEPT !.content = ParagraphsTable[@], !.at = "StripTags"]
    /\ UNCHANGED program

\* content = strip.StripTags(content)
stripTags ==
    /\ frame.at = "StripTags"
    /\ frame' = [frame EXCEPT !.content = StripTagsTable[@], !.at = "UnescapeString"]
    /\ UNCHANGED program

\* variant: the tags are stripped once more after the entities are decoded
StrippedAfterUnescapeTable ==
    Tabulate(LAMBDA c : StripTags(UnescapeString(c)), Range(StripTagsTable))

unescapeStringThenStrip ==
    /\ frame.at = "UnescapeString"
    /\ frame' = [frame EXCEPT !.content = StrippedAfterUnescapeTable[@], !.at = "return"]
    /\ UNCHANGED program

\* content = html.UnescapeString(content); return content
unescapeString ==
    /\ frame.at = "UnescapeString"
    /\ frame' = [frame EXCEPT !.content = UnescapeStringTable[@], !.at = "return"]
    /\ UNCHANGED program

NextToot ==
    \/ replaceParagraphs
    \/ stripTags
    \/ unescapeString

\* the statements of a function run one after another until it returns
SpecToot == InitToot /\ [][NextToot]_vars /\ WF_vars(NextToot)

(***************************************************************************)
(* Properties                                                              *)
(***************************************************************************)

\* the tweet of the archive with this id
ArchivedTweet(id) == archive[CHOOSE k \in DOMAIN archive : archive[k].ID = id]

\* the successful PostStatus calls of the current run, in order
PostCalls == SelectSeq(calls, LAMBDA c : c.op = "PostStatus" /\ c.ok)

\* a tweet the candidate loop leaves out whatever its id
IsReplyOrAt(tweet) == tweet.Reply # Nil \/ HasSuffix(tweet.Text, "@")

\* the loop that fills tweetsToSync has been left in the current run
WalkLeft ==
    \/ pc \in {"tempDir", "syncTweet"}
    \/ pc = "idle" /\ result \in {"nil", "error creating temp dir", "error syncing tweet"}

\* the candidate loop has been left in the current run
CandidatesSelected ==
    \/ pc \in {"GetAccountCurrentUser", "GetAccountStatuses", "tweetsToSync"}
    \/ WalkLeft
    \/ pc = "idle" /\ result \in {"error getting current user account",
                                  "error getting statuses"}

\* position in tweetCandidates of the first candidate that findMatchingStatus
\* matches against the statuses of the run, 0 if there is none
FirstMatchingCandidate ==
    First({k \in DOMAIN tweetCandidates :
              findMatchingStatus(statuses, tweetCandidates[k]).matchingStatus # Nil})

\* the Levenshtein distances between tootToTweet(status) and the texts the
\* implementations give for the tweet
Distances(status, tweet) ==
    {Distance(Normalized(status), Transformed("tweetToTootV2", tweet)),
     Distance(Normalized(status), Transformed("tweetToTootV1", tweet))}

\* C1: over the runs of syncTwitter on one archive, each of which sees the
\* most recent statuses of the account (those of earlier runs included), no
\* tweet of the archive is posted more than once.
NoDuplicatePublishing ==
    \A x, y \in DOMAIN postLog : postLog[x].ID = postLog[y].ID => x = y

\* a later run posts after its walk stopped at a tweet an earlier run posted
LaterRunStopsAtPublishedTweet ==
    /\ lastMatch.matchingStatus # Nil
    /\ \E x, y \in DOMAIN postLog :
          /\ postLog[x].run < postLog[y].run
          /\ postLog[y].run = runs
          /\ matched[Len(matched)] = postLog[x].ID

\* C2: once the walk is over, tweetsToSync is exactly the candidates before
\* the first candidate findMatchingStatus matches (all of them if none
\* matches), and every tweet posted in the run is one of those: the matching
\* candidate and the candidates after it are not posted, matching or not.
UnsyncedIsCandidatesBeforeFirstMatch ==
    WalkLeft =>
        LET n == IF FirstMatchingCandidate = 0 THEN Len(tweetCandidates)
                 ELSE FirstMatchingCandidate - 1
        IN  /\ tweetsToSync = SubSeq(tweetCandidates, 1, n)
            /\ \A c \in DOMAIN calls :
                  calls[c].op = "PostStatus" =>
                      \E k \in 1..n : tweetCandidates[k].ID = calls[c].tweet

\* a run posted a candidate, its walk stopped at a later candidate, and an
\* older candidate that matches no status was left behind it
WalkStoppedBeforeUnmatchedCandidate ==
    /\ WalkLeft
    /\ PostCalls # <<>>
    /\ FirstMatchingCandidate > 1
    /\ \E k \in DOMAIN tweetCandidates :
          /\ k > FirstMatchingCandidate
          /\ findMatchingStatus(statuses, tweetCandidates[k]).matchingStatus = Nil

\* C3: a status findMatchingStatus returns comes with the Levenshtein
\* distance between tootToTweet(status) and the text of one of the
\* implementations, and that distance is in 0..9; a status is returned as soon
\* as some status of the list is within 9 of an implementation's text, and
\* none is returned when every distance is 10 or more.
MatchWithinTolerance ==
    matched # <<>> =>
        LET tweet == tweetCandidates[Len(matched)]
            dists(st) == Distances(st, tweet)
        IN  /\ lastMatch.matchingStatus # Nil =>
                  /\ lastMatch.distance \in 0..9
                  /\ lastMatch.distance \in dists(Deref(lastMatch.matchingStatus))
                  /\ \E k \in DOMAIN statuses :
                        statuses[k] = Deref(lastMatch.matchingStatus)
            /\ lastMatch.matchingStatus # Nil <=>
                  \E k \in DOMAIN statuses : \E d \in dists(statuses[k]) : d <= 9

\* a tweet was left unmatched by a status at distance exactly 10, and the
\* next one was matched at distance exactly 9
UnmatchedAtTenMatchedAtNine ==
    /\ Len(matched) = 2
    /\ lastMatch.matchingStatus # Nil
    /\ lastMatch.distance = 9
    /\ tweetsToSync = <<tweetCandidates[1]>>
    /\ \E k \in DOMAIN statuses : 10 \in Distances(statuses[k], tweetCandidates[1])

\* C4: the status returned is the first of the list, in the order given, that
\* some implementation brings within the tolerance, and the distance returned
\* is that of tweetToTootV2 if it is within the tolerance and that of
\* tweetToTootV1 otherwise, whatever smaller distance a later status or the
\* other implementation would give.
FirstFoundPolicy ==
    (matched # <<>> /\ lastMatch.matchingStatus # Nil) =>
        LET tweet == tweetCandidates[Len(matched)]
            hits  == {k \in DOMAIN statuses :
                         \E d \in Distances(statuses[k], tweet) : d < 10}
            k     == First(hits)
            v2    == Distance(Normalized(statuses[k]), Transformed("tweetToTootV2", tweet))
            v1    == Distance(Normalized(statuses[k]), Transformed("tweetToTootV1", tweet))
        IN  /\ hits # {}
            /\ Deref(lastMatch.matchingStatus) = statuses[k]
            /\ lastMatch.distance = IF v2 < 10 THEN v2 ELSE v1

\* the status returned is not the closest: a later status is closer to the
\* tweet, and tweetToTootV1 is closer to the returned status than the
\* tweetToTootV2 whose distance is returned
FirstFoundIsNotBestFound ==
    /\ matched # <<>>
    /\ lastMatch.matchingStatus # Nil
    /\ LET tweet == tweetCandidates[Len(matched)]
           st    == Deref(lastMatch.matchingStatus)
       IN  /\ lastMatch.distance =
                  Distance(Normalized(st), Transformed("tweetToTootV2", tweet))
           /\ Distance(Normalized(st), Transformed("tweetToTootV1", tweet))
                  < lastMatch.distance
           /\ \E j, k \in DOMAIN statuses :
                 /\ statuses[j] = st
                 /\ j < k
                 /\ \E d \in Distances(statuses[k], tweet) : d < lastMatch.distance

\* C5: when no status of the list is within the tolerance of an
\* implementation's text, the list being empty or not, findMatchingStatus
\* returns no status and the distance 0.
NoMatchReturnsZeroDistance ==
    matched # <<>> =>
        LET tweet == tweetCandidates[Len(matched)]
        IN  (\A k \in DOMAIN statuses : \A d \in Distances(statuses[k], tweet) : d >= 10)
                => /\ lastMatch.matchingStatus = Nil
                   /\ lastMatch.distance = 0

\* no status was returned for a tweet after distances of 10 or more were
\* computed against every status of a full list
UnmatchedAfterScan ==
    /\ matched # <<>>
    /\ lastMatch = NoMatch
    /\ Len(statuses) = MaxStatuses
    /\ \A k \in DOMAIN statuses :
          \A d \in Distances(statuses[k], tweetCandidates[Len(matched)]) : d >= 10

\* the candidates the code's rules select from the tweets of the file: the
\* tweets before the first one below MinTweetID, replies and @'s left out
ExpectedCandidates ==
    LET below == First({k \in DOMAIN allTweets : allTweets[k].ID < conf.MinTweetID})
        n     == IF below = 0 THEN Len(allTweets) ELSE below - 1
    IN  SelectSeq(SubSeq(allTweets, 1, n), LAMBDA tweet : ~IsReplyOrAt(tweet))

\* C6: the candidates are exactly the tweets of the file that come before the
\* first tweet with an id below MinTweetID, replies and tweets ending in "@"
\* left out, in the order of the file; a tweet after a tweet below MinTweetID
\* is no candidate whatever its id, and a reply below MinTweetID ends the scan
\* as any other tweet does.
CandidatesStopAtFirstBelowMinTweetID ==
    CandidatesSelected =>
        /\ tweetCandidates = ExpectedCandidates
        /\ \A j, k \in DOMAIN allTweets :
              (j < k /\ allTweets[j].ID < conf.MinTweetID) =>
                  \A c \in DOMAIN tweetCandidates : tweetCandidates[c] # allTweets[k]

\* candidates were selected from a file in which a reply with an id below
\* MinTweetID comes after a candidate and before a tweet that has an id of
\* MinTweetID or more and is neither a reply nor an @
ReplyBelowMinTweetIDEndedScan ==
    /\ CandidatesSelected
    /\ tweetCandidates # <<>>
    /\ \E j, k \in DOMAIN allTweets :
          /\ 1 < j /\ j < k
          /\ allTweets[j].ID < conf.MinTweetID
          /\ allTweets[j].Reply # Nil
          /\ allTweets[k].ID >= conf.MinTweetID
          /\ ~IsReplyOrAt(allTweets[k])

\* C7: a tweet with Reply set, or with a text that ends in "@", is in no run
\* handed to findMatchingStatus, has no media fetched or uploaded, and is not
\* posted, whatever its id and the statuses of the account.
RepliesAndAtsNeverPublished ==
    \A k \in DOMAIN archive :
        IsReplyOrAt(archive[k]) =>
            /\ \A m \in DOMAIN matched : matched[m] # archive[k].ID
            /\ \A c \in DOMAIN calls : calls[c].tweet # archive[k].ID
            /\ \A x \in DOMAIN postLog : postLog[x].ID # archive[k].ID
            /\ \A x \in DOMAIN tweetsToSync : tweetsToSync[x] # archive[k]

\* a run fetched media and posted a tweet that comes, in the file, after a
\* reply with a photo and after an @ that a status of the account matches,
\* both with an id of MinTweetID or more
PostedPastReplyAndMatchingAt ==
    /\ \E c \in DOMAIN calls : calls[c].op = "fetchURL"
    /\ \E i, j, k \in DOMAIN archive :
          /\ i < k /\ j < k
          /\ archive[i].Reply # Nil
          /\ archive[i].ID >= conf.MinTweetID
          /\ SyncedMedias(archive[i]) # <<>>
          /\ archive[j].Reply = Nil
          /\ HasSuffix(archive[j].Text, "@")
          /\ archive[j].ID >= conf.MinTweetID
          /\ findMatchingStatus(statuses, archive[j]).matchingStatus # Nil
          /\ \E c \in DOMAIN PostCalls : PostCalls[c].tweet = archive[k].ID

\* ids of the tweets posted in the current run, in the order of the calls
PostedIDs == [k \in DOMAIN PostCalls |-> PostCalls[k].tweet]

\* ids of the min(MaxTweetsToSync, n) last of the n tweets of tweetsToSync,
\* last first
OldestFirstPlan ==
    LET n == Len(tweetsToSync)
    IN  [k \in 1..Min(conf.MaxTweetsToSync, n) |-> tweetsToSync[n + 1 - k].ID]

SortedByDescendingID(tweets) ==
    \A j, k \in DOMAIN tweets : j < k => tweets[j].ID > tweets[k].ID

\* C8: the tweets posted in a run are the min(MaxTweetsToSync, n) last
\* collected of the n tweets to sync, in the reverse of the order of
\* collection: at any moment the posts made so far are the first ones of that
\* list, and a run that returns nil without DryRun has made them all; when
\* the file is sorted by descending id each post has a higher id than the one
\* before, and the tweets left unposted are the first collected, the newest.
PublishedOldestFirst ==
    /\ Len(PostedIDs) <= Len(OldestFirstPlan)
    /\ PostedIDs = SubSeq(OldestFirstPlan, 1, Len(PostedIDs))
    /\ (pc = "idle" /\ result = "nil" /\ ~conf.DryRun) => PostedIDs = OldestFirstPlan
    /\ SortedByDescendingID(archive) =>
          /\ \A j, k \in DOMAIN PostedIDs : j < k => PostedIDs[j] < PostedIDs[k]
          /\ \A j \in DOMAIN PostedIDs :
                \A k \in 1..(Len(tweetsToSync) - Len(PostedIDs)) :
                    tweetsToSync[k].ID > PostedIDs[j]

\* a run over a sorted file returned nil after it posted two of three tweets
\* to sync and left the newest
PostedTwoOldestOfThree ==
    /\ pc = "idle"
    /\ result = "nil"
    /\ SortedByDescendingID(archive)
    /\ Len(tweetsToSync) = 3
    /\ PostedIDs = <<tweetsToSync[3].ID, tweetsToSync[2].ID>>

\* the tweets for which the current run made a collaborator call
TweetsCalledFor == {calls[c].tweet : c \in DOMAIN calls}

\* C9, in a state: tweetsSynced is at most MaxTweetsToSync, no more tweets
\* than that have had a call made for them, and with a MaxTweetsToSync of 0
\* or less nothing is fetched and nothing is posted.
WithinMaxTweetsToSync ==
    /\ tweetsSynced <= conf.MaxTweetsToSync
    /\ Cardinality(TweetsCalledFor) <= conf.MaxTweetsToSync
    /\ conf.MaxTweetsToSync <= 0 => calls = <<>> /\ postLog = <<>>

\* C9, in a step: once tweetsSynced has reached MaxTweetsToSync the sync loop
\* starts no syncTweet: no call is made, nothing is posted, tweetsSynced
\* stays.
NoSyncTweetAfterMaximum ==
    (pc = "syncTweet" /\ tweetsSynced >= conf.MaxTweetsToSync) =>
        /\ calls' = calls
        /\ server' = server
        /\ postLog' = postLog
        /\ tweetsSynced' = tweetsSynced

PostsTweetToTootV1 ==
    /\ \A c \in DOMAIN calls :
          calls[c].op = "PostStatus" =>
              /\ calls[c].status = ArchivedTweet(calls[c].tweet).Text
              /\ calls[c].status = Transformed("tweetToTootV1", ArchivedTweet(calls[c].tweet))
              /\ Transformed("tweetToTootV2", ArchivedTweet(calls[c].tweet))
                     # ArchivedTweet(calls[c].tweet).Text
                 => calls[c].status
                        # Transformed("tweetToTootV2", ArchivedTweet(calls[c].tweet))
    /\ (pc = "syncTweet" /\ PostCalls # <<>>) =>
          server[1].Content = Rendered(ArchivedTweet(PostCalls[Len(PostCalls)].tweet).Text)

\* a run posted a tweet with a link to expand and a trailing t.co media link,
\* and a retweet: tweets for which tweetToTootV2 gives another text
PostedTweetsThatV2Changes ==
    /\ \E c \in DOMAIN PostCalls :
          LET tweet == ArchivedTweet(PostCalls[c].tweet)
          IN  /\ tweet.Retweet # Nil
              /\ Transformed("tweetToTootV2", tweet) # tweet.Text
    /\ \E c \in DOMAIN PostCalls :
          LET tweet == ArchivedTweet(PostCalls[c].tweet)
          IN  /\ tweet.Retweet = Nil
              /\ SyncedMedias(tweet) # <<>>
              /\ Transformed("tweetToTootV2", tweet) # tweet.Text

\* the run before this one ended with the error of a call made for a tweet
PreviousRunFailedAtTweet == previousFailure.op \in SyncOps

\* position of the tweet with this id among the candidates, 0 if it is none
CandidatePosition(id) ==
    First({k \in DOMAIN tweetCandidates : tweetCandidates[k].ID = id})

\* the status the account holds for a tweet the program posted
StatusOf(id) == [ID |-> 0, Content |-> Rendered(ArchivedTweet(id).Text)]

\* a tweet the run before posted is within the tolerance of another tweet, one
\* that is the candidate at position n or comes before it
EarlierPostWithinTolerance(n) ==
    \E x \in DOMAIN postLog :
        /\ postLog[x].run = runs - 1
        /\ \E k \in 1..n :
              /\ tweetCandidates[k].ID # postLog[x].ID
              /\ \E d \in Distances(StatusOf(postLog[x].ID), tweetCandidates[k]) :
                    d < levenshteinDistanceTolerance

\* C11, first part: the tweet whose fetchURL, UploadMedia or PostStatus call
\* failed is not among the statuses of the account when the run has returned
\* and has not been posted by that run.
FailedTweetNotOnDestination ==
    failure.op \in SyncOps =>
        /\ \A k \in DOMAIN server : server[k].Content # StatusOf(failure.tweet).Content
        /\ \A x \in DOMAIN postLog :
              ~(postLog[x].ID = failure.tweet /\ postLog[x].run = runs)

\* C11, second part: in the run after, the tweet is a candidate again.
FailedTweetIsCandidateAgain ==
    (PreviousRunFailedAtTweet /\ CandidatesSelected) =>
        CandidatePosition(previousFailure.tweet) # 0

\* C11, as claimed: in the run after, the tweet is found unsynced and is the
\* first tweet the sync loop hands to syncTweet, in every case.
FailedTweetIsRetriedFirst ==
    /\ FailedTweetNotOnDestination
    /\ FailedTweetIsCandidateAgain
    /\ (PreviousRunFailedAtTweet /\ WalkLeft) =>
          /\ tweetsToSync # <<>>
          /\ tweetsToSync[Len(tweetsToSync)].ID = previousFailure.tweet
    /\ (PreviousRunFailedAtTweet /\ calls # <<>>) =>
          calls[1].tweet = previousFailure.tweet

\* C11: the tweet whose call failed is not on the destination after the run
\* and is a candidate again in the run after; there it is found unsynced
\* unless a tweet the failing run posted before is within the tolerance of it
\* or of a candidate before it, and with DryRun off it is then the last of
\* tweetsToSync, the first tweet handed to syncTweet and the tweet of the
\* run's first call.
FailedTweetIsRetriedFirstUnlessMatched ==
    /\ FailedTweetNotOnDestination
    /\ FailedTweetIsCandidateAgain
    /\ (/\ PreviousRunFailedAtTweet
        /\ WalkLeft
        /\ ~EarlierPostWithinTolerance(CandidatePosition(previousFailure.tweet))) =>
          /\ \E k \in DOMAIN tweetsToSync : tweetsToSync[k].ID = previousFailure.tweet
          /\ ~conf.DryRun =>
                /\ tweetsToSync[Len(tweetsToSync)].ID = previousFailure.tweet
                /\ calls # <<>> => calls[1].tweet = previousFailure.tweet

\* a run posted a tweet and failed at the next one; the run after found that
\* tweet unsynced and posted it with its first PostStatus call
FailedTweetPostedByNextRun ==
    /\ PreviousRunFailedAtTweet
    /\ \E x \in DOMAIN postLog : postLog[x].run = runs - 1
    /\ PostCalls # <<>>
    /\ PostCalls[1].tweet = previousFailure.tweet
    /\ calls[1].tweet = previousFailure.tweet

\* the statuses the account holds for the tweets of these PostStatus calls,
\* the last one posted first
RECURSIVE PostedStatuses(_, _)
PostedStatuses(posts, k) ==
    IF k < 1 THEN <<>>
    ELSE <<[ID |-> Len(serverBefore) + k, Content |-> Rendered(posts[k].status)]>>
         \o PostedStatuses(posts, k - 1)

\* C12: a call that returns an error is the last call of its run: the run has
\* returned "error syncing tweet" and has made no call after it, for the same
\* tweet or for another; the tweet of a failed fetchURL or UploadMedia has no
\* PostStatus call; no call is made twice; and the account holds the statuses
\* it had when the run started and, before them, those of the tweets the run
\* posted before the error.
RunStopsAtFailedCall ==
    /\ \A c \in DOMAIN calls :
          ~calls[c].ok =>
              /\ c = Len(calls)
              /\ pc = "idle"
              /\ result = "error syncing tweet"
              /\ failure = [op |-> calls[c].op, tweet |-> calls[c].tweet]
    /\ failure.op \in SyncOps =>
          /\ calls # <<>>
          /\ ~calls[Len(calls)].ok
          /\ \A c \in DOMAIN calls :
                (calls[c].tweet = failure.tweet /\ calls[c].op = "PostStatus")
                    => c = Len(calls)
          /\ failure.op \in {"fetchURL", "UploadMedia"} =>
                \A c \in DOMAIN calls :
                    ~(calls[c].tweet = failure.tweet /\ calls[c].op = "PostStatus")
    /\ \A c, d \in DOMAIN calls :
          (/\ calls[c].op = calls[d].op
           /\ calls[c].tweet = calls[d].tweet
           /\ calls[c].media = calls[d].media) => c = d
    /\ server = PostedStatuses(PostCalls, Len(PostCalls)) \o serverBefore

\* a run posted a tweet, then fetched a photo of the next tweet and failed to
\* upload it, and returned with a newer tweet to sync left untouched
UploadFailedAfterPost ==
    /\ pc = "idle"
    /\ failure.op = "UploadMedia"
    /\ PostCalls # <<>>
    /\ syncIndex >= 2
    /\ \E c \in DOMAIN calls : calls[c].op = "fetchURL" /\ calls[c].tweet = failure.tweet

\* C13: when syncTwitter has returned, with nil or with any error, the
\* temporary directory does not exist; it exists only while the sync loop
\* runs, and the sync loop runs only with at least one tweet to sync, so a run
\* with nothing to sync never has one.
TempDirRemovedOnReturn ==
    /\ pc = "idle" => ~tempDir
    /\ tempDir <=> pc = "syncTweet"
    /\ pc = "syncTweet" => Len(tweetsToSync) >= 1
    /\ (result = "nil" /\ tweetsToSync = <<>>) => calls = <<>> /\ ~tempDir

\* a second or later run returned the error of a call made in the sync loop,
\* where the temporary directory existed
ReturnedErrorFromSyncLoop ==
    /\ pc = "idle"
    /\ failure.op \in SyncOps
    /\ result = "error syncing tweet"
    /\ ~tempDir
    /\ runs >= 2

\* the error syncTwitter returns when this call fails
EarlyError(op) ==
    IF op = "readTweetsFromFile" THEN "error reading source twitter data file"
    ELSE IF op = "GetAccountCurrentUser" THEN "error getting current user account"
    ELSE "error getting statuses"

\* C14: when readTweetsFromFile, GetAccountCurrentUser or GetAccountStatuses
\* fails, syncTwitter has returned that error and the run has made no
\* fetchURL, UploadMedia or PostStatus call, has handed no tweet to
\* findMatchingStatus, has no temporary directory and has left the statuses
\* of the account as they were when it started.
EarlyErrorLeavesNothingDone ==
    failure.op \in {"readTweetsFromFile", "GetAccountCurrentUser", "GetAccountStatuses"} =>
        /\ pc = "idle"
        /\ result = EarlyError(failure.op)
        /\ calls = <<>>
        /\ matched = <<>>
        /\ tweetsToSync = <<>>
        /\ ~tempDir
        /\ server = serverBefore
        /\ \A x \in DOMAIN postLog : postLog[x].run # runs

\* a run that had candidates failed to list the statuses of an account to
\* which an earlier run had posted
ListingFailedAfterEarlierPosts ==
    /\ pc = "idle"
    /\ failure.op = "GetAccountStatuses"
    /\ tweetCandidates # <<>>
    /\ postLog # <<>>
    /\ server # <<>>

\* the fetchURL calls for the photos of the tweets tweetsToSync[k] down to
\* tweetsToSync[last], in the order of the sync loop
RECURSIVE PhotoFetches(_, _)
PhotoFetches(k, last) ==
    IF k < last THEN <<>>
    ELSE [j \in 1..Len(SyncedMedias(tweetsToSync[k])) |->
             Call("fetchURL", tweetsToSync[k], SyncedMedias(tweetsToSync[k])[j].ID, "", <<>>)]
         \o PhotoFetches(k - 1, last)

\* the sync loop is running or has ended without an error
SyncLoopWithoutError ==
    \/ pc = "syncTweet"
    \/ pc = "idle" /\ result = "nil" /\ tweetsToSync # <<>>

\* C19: with DryRun set a run makes no PostStatus and no UploadMedia call and
\* the account keeps the statuses it had; the photos of every tweet the sync
\* loop has handled are fetched all the same, in the loop's order, and every
\* tweet handled is counted in tweetsSynced, so that the loop stops at
\* MaxTweetsToSync as it does without DryRun.
DryRunPublishesNothing ==
    conf.DryRun =>
        /\ \A c \in DOMAIN calls : calls[c].op = "fetchURL"
        /\ server = serverBefore
        /\ postLog = <<>>
        /\ SyncLoopWithoutError =>
              /\ tweetsSynced = Len(tweetsToSync) - syncIndex
              /\ tweetsSynced <= conf.MaxTweetsToSync
              /\ calls = PhotoFetches(Len(tweetsToSync), syncIndex + 1)
              /\ pc = "idle" =>
                    tweetsSynced = Min(conf.MaxTweetsToSync, Len(tweetsToSync))

\* a dry run over an account with statuses fetched a photo, counted the tweet
\* and broke at the maximum with a tweet left
DryRunBrokeAtMaximum ==
    /\ conf.DryRun
    /\ pc = "idle"
    /\ result = "nil"
    /\ server # <<>>
    /\ tweetsSynced >= 1
    /\ tweetsSynced = conf.MaxTweetsToSync
    /\ syncIndex >= 1
    /\ \E c \in DOMAIN calls : calls[c].op = "fetchURL" /\ calls[c].ok

\* the candidates of the data file
Candidates == CandidatesFrom(archive, conf.MinTweetID, 1)

\* the statuses the account held before the first run, newest first
InitialStatuses == SubSeq(server, Len(postLog) + 1, Len(server))

\* the account holds the status of this tweet's text
OnDestination(tweet) ==
    \E k \in DOMAIN server : server[k].Content = Rendered(tweet.Text)

\* a status the runs posted for another tweet is within the tolerance of the
\* candidate at position n or of a candidate before it
PostWithinTolerance(n) ==
    \E x \in DOMAIN postLog :
        \E k \in 1..n :
            /\ Candidates[k].ID # postLog[x].ID
            /\ \E d \in Distances(StatusOf(postLog[x].ID), Candidates[k]) :
                  d < levenshteinDistanceTolerance

\* a status the account held before the first run matches the candidate at
\* position n or a candidate before it
InitialStatusMatches(n) ==
    \E k \in 1..n : findMatchingStatus(InitialStatuses, Candidates[k]).matchingStatus # Nil

\* a run has returned nil after it found nothing to sync: every run after it
\* reads the same file and the same statuses and finds the same
NothingLeftToSync ==
    /\ pc = "idle"
    /\ result = "nil"
    /\ tweetsToSync = <<>>

\* C20, as claimed, in the form a finite run refutes: when a run finds
\* nothing to sync, every candidate is on the destination.
EveryCandidatePublishedInTheEnd ==
    NothingLeftToSync => \A k \in DOMAIN Candidates : OnDestination(Candidates[k])

\* every candidate is on the destination, or is passed over for good: it or a
\* candidate before it is within the tolerance of a status posted for another
\* tweet, or matches a status the account held before the first run
AllCandidatesSettled ==
    \A k \in DOMAIN Candidates :
        \/ OnDestination(Candidates[k])
        \/ PostWithinTolerance(k)
        \/ InitialStatusMatches(k)

\* C20: under repeated runs without failures on a sorted file, from some run
\* on every candidate is on the destination, except those passed over for
\* good because they or a newer candidate are within the tolerance of a
\* status posted for another tweet or match a status the account held before
\* the first run; from then on the runs post nothing, and a tweet is never
\* posted twice.
CandidatesEventuallySettled ==
    /\ <>[]AllCandidatesSettled
    /\ <>[][server' = server]_vars
    /\ []NoDuplicatePublishing

\* three runs posted the three candidates of a file, one each, oldest first
ThreeRunsPostedThreeCandidates ==
    /\ Len(Candidates) = 3
    /\ Len(postLog) = 3
    /\ \A k \in 1..3 : postLog[k] = [ID |-> Candidates[4 - k].ID, run |-> k]
    /\ \A k \in 1..3 : OnDestination(Candidates[k])

(***************************************************************************)
(* tweetToTootV2: the expansion of the URL entities                        *)
(***************************************************************************)

\* the first position in from..Len(s)+1 where old occurs in s -- a set with
\* that position alone, empty when there is none
FirstOccurrence(s, old, from) ==
    {p \in from..(Len(s) + 1) :
        /\ HasPrefixAt(s, p, old)
        /\ \A q \in from..(p - 1) : ~HasPrefixAt(s, q, old)}

\* every occurrence of old in s, taken from the left, none overlapping one
\* taken before; the empty string occurs before every character and at the end
RECURSIVE Occurrences(_, _, _)
Occurrences(s, old, from) ==
    UNION {{p} \cup Occurrences(s, old, p + (IF old = "" THEN 1 ELSE Len(old))) :
              p \in FirstOccurrence(s, old, from)}

\* s from position i on, new written in place of the occurrences of length w
\* that start at the positions in taken
RECURSIVE Spliced(_, _, _, _, _)
RECURSIVE SplicedAt(_, _, _, _, _, _)
Spliced(s, taken, w, new, i) ==
    IF taken = {} THEN StrFrom(s, i)
    ELSE SplicedAt(s, taken, w, new, i, First(taken))

\* p is the first position in taken
SplicedAt(s, taken, w, new, i, p) ==
    SubSeq(s, i, p - 1) \o new \o Spliced(s, taken \ {p}, w, new, p + w)

\* s with every occurrence of old replaced by new
EveryOccurrenceReplaced(s, old, new) ==
    Spliced(s, Occurrences(s, old, 1), Len(old), new, 1)

\* text after the first n entities of urls were replaced one after another,
\* each in the result of the one before
RECURSIVE ExpandedThrough(_, _, _)
ExpandedThrough(text, urls, n) ==
    IF n = 0 THEN text
    ELSE EveryOccurrenceReplaced(ExpandedThrough(text, urls, n - 1),
                                 urls[n].URL, urls[n].ExpandedURL)

\* sub occurs in s
Occurs(sub, s) == \E i \in 1..(Len(s) + 1) : HasPrefixAt(s, i, sub)

\* the short forms are distinct and none occurs inside another short form or
\* inside an expanded form
ShortFormsApart(urls) ==
    /\ \A a, b \in DOMAIN urls : a # b => urls[a].URL # urls[b].URL
    /\ \A a, b \in DOMAIN urls : a # b => ~Occurs(urls[a].URL, urls[b].URL)
    /\ \A a, b \in DOMAIN urls : ~Occurs(urls[a].URL, urls[b].ExpandedURL)

NoWhitespaceIn(s) == \A i \in 1..Len(s) : SubSeq(s, i, i) \notin Whitespace

\* the w characters of s from position i on are a word: white space or an
\* end of s on either side
WholeWordAt(s, i, w) ==
    /\ w >= 1
    /\ i = 1 \/ SubSeq(s, i - 1, i - 1) \in Whitespace
    /\ i + w > Len(s) \/ SubSeq(s, i + w, i + w) \in Whitespace

\* no short or expanded form holds white space, and every occurrence of a
\* short form in text is a whole word of it
ShortFormsAreWords(text, urls) ==
    /\ \A a \in DOMAIN urls : NoWhitespaceIn(urls[a].URL) /\ NoWhitespaceIn(urls[a].ExpandedURL)
    /\ \A a \in DOMAIN urls :
          \A i \in 1..(Len(text) + 1) :
              HasPrefixAt(text, i, urls[a].URL) => WholeWordAt(text, i, Len(urls[a].URL))

\* the orders of n entities
Orders(n) == {p \in [1..n -> 1..n] : \A a, b \in 1..n : p[a] = p[b] => a = b}

Reordered(urls, p) == [k \in DOMAIN urls |-> urls[p[k]]]

\* every order of the entities gives the content the list order gave
AnyOrderSameContent(text, urls, content) ==
    \A p \in Orders(Len(urls)) :
        ExpandedThrough(text, Reordered(urls, p), Len(urls)) = content

\* the loop over the URLs is running or has just ended: content is what the
\* URL step made of the text
InURLStep == frame.at \in {"URLs", "Medias"}

\* after frame.k - 1 entities, content is the text with every occurrence of
\* each of them replaced, in list order; without URL entity it is the text
ExpandedInListOrder ==
    InURLStep =>
        /\ frame.content =
               ExpandedThrough(frame.tweet.Text, EntitiesURLs(frame.tweet), frame.k - 1)
        /\ EntitiesURLs(frame.tweet) = <<>> => frame.content = frame.tweet.Text

\* C15, as claimed: V2 replaces every occurrence of each short form, entity
\* after entity in list order; when the short forms are distinct and none
\* occurs inside another short form or inside an expanded form, every order
\* of the entities gives the same result; without URL entity the text is
\* unchanged.
URLsExpandedOrderFreeWhenApart ==
    /\ ExpandedInListOrder
    /\ (frame.at = "Medias" /\ ShortFormsApart(EntitiesURLs(frame.tweet)))
          => AnyOrderSameContent(frame.tweet.Text, EntitiesURLs(frame.tweet), frame.content)

\* C15: V2 replaces every occurrence of each short form, entity after entity
\* in list order; when the short forms are distinct, none occurs inside
\* another short form or inside an expanded form, no short or expanded form
\* holds white space and every occurrence of a short form in the text is a
\* whole word, every order of the entities gives the same result; without
\* URL entity the text is unchanged.
URLsExpandedOrderFreeWhenWords ==
    /\ ExpandedInListOrder
    /\ ( /\ frame.at = "Medias"
         /\ ShortFormsApart(EntitiesURLs(frame.tweet))
         /\ ShortFormsAreWords(frame.tweet.Text, EntitiesURLs(frame.tweet)) )
          => AnyOrderSameContent(frame.tweet.Text, EntitiesURLs(frame.tweet), frame.content)

\* the loop replaced two short forms that are words of the text, and the
\* text has changed
TwoWordsExpanded ==
    /\ frame.at = "Medias"
    /\ Len(EntitiesURLs(frame.tweet)) = 2
    /\ ShortFormsApart(EntitiesURLs(frame.tweet))
    /\ ShortFormsAreWords(frame.tweet.Text, EntitiesURLs(frame.tweet))
    /\ \A a \in 1..2 : Occurs(EntitiesURLs(frame.tweet)[a].URL, frame.tweet.Text)
    /\ \A a \in 1..2 : ~Occurs(EntitiesURLs(frame.tweet)[a].URL, frame.content)
    /\ frame.content # frame.tweet.Text

(***************************************************************************)
(* tweetToTootV2: the short link Twitter adds for embedded media           *)
(***************************************************************************)

\* the text the URL step makes of the tweet's text
AfterURLStep(tweet) ==
    ExpandedThrough(tweet.Text, EntitiesURLs(tweet), Len(EntitiesURLs(tweet)))

\* the tweet has at least one media entity
HasMediaEntity(tweet) ==
    /\ tweet.Entities # Nil
    /\ Deref(tweet.Entities).Medias # Nil
    /\ Len(Deref(Deref(tweet.Entities).Medias)) >= 1

\* where s ends with a space, https://t.co/ and n word characters, for each n
\* from 5 on
TrailingShortLinks(s) ==
    {n \in 5..Len(s) :
        /\ HasSuffix(s, TcoPrefix \o SubSeq(s, Len(s) - n + 1, Len(s)))
        /\ \A i \in (Len(s) - n + 1)..Len(s) : SubSeq(s, i, i) \in WordChars}

\* s without the short link at its end, s itself when it has none
WithoutTrailingShortLink(s) ==
    IF TrailingShortLinks(s) = {} THEN s
    ELSE SubSeq(s, 1, Len(s) - Len(TcoPrefix) - (CHOOSE n \in TrailingShortLinks(s) : TRUE))

\* C16: after the media step, the content of a tweet with at least one media
\* entity is the URL-expanded text without the short link at its end; the
\* content of a tweet without media entity (Entities absent, Medias absent or
\* Medias empty) is the URL-expanded text untouched; a short link at the end
\* of the text that a URL entity expanded is still there in its expanded form.
TrailingLinkRemovedOnlyWithMedia ==
    frame.at = "Retweet" =>
        /\ HasMediaEntity(frame.tweet) =>
              frame.content = WithoutTrailingShortLink(AfterURLStep(frame.tweet))
        /\ ~HasMediaEntity(frame.tweet) => frame.content = AfterURLStep(frame.tweet)
        /\ ( /\ TrailingShortLinks(frame.tweet.Text) # {}
             /\ TrailingShortLinks(AfterURLStep(frame.tweet)) = {} )
              => frame.content = AfterURLStep(frame.tweet)

\* the same for the tweets whose media list is nil or not empty, where the
\* nil test of the code and the number of media entities agree
TrailingLinkRemovedOutsideEmptyList ==
    (frame.at = "Retweet" /\ (HasMediaEntity(frame.tweet) \/ ~MediasNotNil(frame.tweet)))
        => /\ HasMediaEntity(frame.tweet) =>
                 frame.content = WithoutTrailingShortLink(AfterURLStep(frame.tweet))
           /\ ~HasMediaEntity(frame.tweet) => frame.content = AfterURLStep(frame.tweet)

(***************************************************************************)
(* tweetToTootV2: the link to the retweeted tweet                          *)
(***************************************************************************)

\* the text the URL step and the media step make of the tweet's text
AfterMediaStep(tweet) ==
    IF MediasNotNil(tweet) THEN WithoutTrailingShortLink(AfterURLStep(tweet))
    ELSE AfterURLStep(tweet)

\* https://twitter.com/<User>/status/<StatusID>
LinkToRetweeted(tweet) ==
    "https://twitter.com/" \o Deref(tweet.Retweet).User
        \o "/status/" \o ToString(Deref(tweet.Retweet).StatusID)

\* C17: V2 returns, for a tweet with Retweet, the text of the URL and media
\* steps followed by two newlines and https://twitter.com/<User>/status/<StatusID>,
\* the link being the end of what is returned; for a tweet without Retweet
\* it returns the text of the URL and media steps, nothing appended.
RetweetLinkAppendedLast ==
    frame.at = "return" =>
        /\ frame.tweet.Retweet # Nil =>
              /\ frame.content =
                     AfterMediaStep(frame.tweet) \o "\n\n" \o LinkToRetweeted(frame.tweet)
              /\ HasSuffix(frame.content, LinkToRetweeted(frame.tweet))
        /\ frame.tweet.Retweet = Nil => frame.content = AfterMediaStep(frame.tweet)
        /\ frame.tweet.Text = "RT @user A tweet that's been truncated ..." =>
              frame.content = "RT @user A tweet that's been truncated ...\n\nhttps://twitter.com/user/status/1234567890"

\* V2 has returned for a retweet with media: the short link at the end of
\* the text is gone and the link to the retweeted tweet ends the content
RetweetWithMediaReturned ==
    /\ frame.at = "return"
    /\ frame.tweet.Retweet # Nil
    /\ HasMediaEntity(frame.tweet)
    /\ AfterMediaStep(frame.tweet) # AfterURLStep(frame.tweet)
    /\ frame.content = "pic\n\nhttps://twitter.com/u/status/123"

(***************************************************************************)
(* tootToTweet                                                             *)
(***************************************************************************)

\* the content of the status, every "</p><p>" replaced by two newlines
ParagraphsSplit(status) == EveryOccurrenceReplaced(status.Content, "</p><p>", "\n\n")

\* what tootToTweet has made of the content at each statement: every
\* "</p><p>" replaced, then the tags stripped, then the entities decoded
StepsInOrder ==
    /\ frame.at = "StripTags" =>
          /\ frame.content = ParagraphsSplit(frame.status)
          /\ ~Occurs("</p><p>", frame.content)
    /\ frame.at = "UnescapeString" =>
          frame.content = StripTags(ParagraphsSplit(frame.status))
    /\ frame.at = "return" =>
          frame.content = UnescapeString(StripTags(ParagraphsSplit(frame.status)))

\* what tootToTweet returns for escaped markup, for three paragraphs and for
\* the contents of TestTootToTweet
ReturnedTexts ==
    frame.at = "return" =>
        /\ frame.status.Content = "<p>&lt;p&gt; tag</p>" => frame.content = "<p> tag"
        /\ frame.status.Content = "<p>x &lt;/p&gt;&lt;p&gt; y</p>" =>
              frame.content = "x </p><p> y"
        /\ frame.status.Content = "&lt;b>bold&lt;/b>" => frame.content = "<b>bold</b>"
        /\ frame.status.Content = "<p>a</p><p>b</p><p>c</p>" => frame.content = "a\n\nb\n\nc"
        /\ frame.status.Content \in TestContents =>
              frame.content \in
                  { "Nice thinking around easing Ractors into the Ruby ecosystem from @kirshatrov.\n\nRuby relies heavily on global state so bringing them in at the \"top\" will be difficult initially, but they're more amenable at the \"bottom\" where less state needs to be shared.\n\nhttps://t.co/EF80vm1hEU",
                    "A few romantic shots of Banff to help get your week started. Can't believe I'm still hiking in January. https://t.co/W5dsoSK8u7" }

\* C18: tootToTweet returns for every content, and does three things in
\* this order: every "</p><p>" becomes two newlines, then the tags are
\* stripped, then the character entities are decoded; an escaped tag such
\* as "&lt;p&gt;" is returned as the text "<p>", and an escaped paragraph
\* boundary as the text "</p><p>".
NormalizedInThreeSteps ==
    /\ <>(frame.at = "return")
    /\ [](StepsInOrder /\ ReturnedTexts)

\* tootToTweet has returned the text "<p> tag" for the content with the
\* escaped tag
EscapedTagReturnedAsText ==
    /\ frame.at = "return"
    /\ frame.status.Content = "<p>&lt;p&gt; tag</p>"
    /\ frame.content = "<p> tag"

====
